---- MODULE Spec2Model ----
(***************************************************************************)
(* Parametric building configurator: the data model (MaterialLayer,        *)
(* Window, Wall, Room, Project), the MaterialCalculator and the            *)
(* CodeValidator of src/api.py and src/parametric_building_configurator.py.*)
(*                                                                         *)
(* Numbers.  The program computes with Python floats.  A float is modelled *)
(* as the exact rational it stands for, a pair <<n, d>> in lowest terms    *)
(* with d > 0; the float infinity is <<1, 0>>.  The input sets below hold  *)
(* only values for which the float computation and the exact one agree on  *)
(* every comparison the code makes (lengths in half feet, whole inches,    *)
(* R-values in hundredths).                                                *)
(*                                                                         *)
(* Exceptions.  What an operation raises is the name of the exception      *)
(* type, "None" when it returns.                                           *)
(* studs_count is a Python int and is modelled as a TLA+ integer.          *)
(*                                                                         *)
(* Strings.  An f-string is modelled as the sequence of its pieces, so     *)
(* that concatenation is \o and "starts with" is a prefix of the sequence. *)
(***************************************************************************)
EXTENDS Integers, Sequences, FiniteSets, TLC

VARIABLES
    project,    \* the Project tree the host built
    built,      \* the module whose classes the tree is made of
    call,       \* the operation last invoked, its arguments and what it raised
    ret,        \* what that operation returned
    history     \* what the host kept of earlier calls, when it keeps anything

vars == <<project, built, call, ret, history>>

----------------------------------------------------------------------------
(* Exact rationals standing for Python floats *)

Abs(x) == IF x < 0 THEN -x ELSE x

RECURSIVE GCD(_, _)
GCD(a, b) == IF b = 0 THEN a ELSE GCD(b, a % b)

\* n/d in lowest terms, d > 0
Rat(n, d) == LET g == GCD(Abs(n), d) IN <<n \div g, d \div g>>

FromInt(n) == <<n, 1>>

RAdd(a, b) == Rat(a[1] * b[2] + b[1] * a[2], a[2] * b[2])
RSub(a, b) == Rat(a[1] * b[2] - b[1] * a[2], a[2] * b[2])
RMul(a, b) == Rat(a[1] * b[1], a[2] * b[2])
\* the code only ever divides by a positive number (144.0, 27.0, a spacing)
RDiv(a, b) == Rat(a[1] * b[2], a[2] * b[1])
RLt(a, b)  == a[1] * b[2] < b[1] * a[2]
RGe(a, b)  == a[1] * b[2] >= b[1] * a[2]

\* float('inf'); a product beyond the range of the format, such as 1e308 * 12,
\* is this value too
Infinity == <<1, 0>>

IsInf(a) == a[2] = 0

\* what int(x) raises
PyIntRaises(a) == IF IsInf(a) THEN "OverflowError" ELSE "None"

\* what a / b raises
RDivRaises(a, b) == IF b[1] = 0 THEN "ZeroDivisionError" ELSE "None"

\* what max(xs) raises
MaxRaises(xs) == IF xs = <<>> THEN "ValueError" ELSE "None"

\* the first exception raised in a sequence of steps, "None" when none is
FirstRaised(excs) ==
    IF \A i \in DOMAIN excs : excs[i] = "None" THEN "None"
    ELSE excs[CHOOSE i \in DOMAIN excs :
                  /\ excs[i] # "None"
                  /\ \A j \in 1..(i - 1) : excs[j] = "None"]

\* Python int(x): truncation toward zero
PyInt(a) == IF a[1] >= 0 THEN a[1] \div a[2] ELSE -((-a[1]) \div a[2])

\* sum(xs), Python's sum: from 0, left to right
RECURSIVE RSum(_)
RSum(xs) == IF xs = <<>> THEN FromInt(0)
            ELSE RAdd(RSum(SubSeq(xs, 1, Len(xs) - 1)), xs[Len(xs)])

----------------------------------------------------------------------------
(* Enumerations *)

STUD_2x4_16OC == "2x4 @ 16oc"
STUD_2x4_24OC == "2x4 @ 24oc"
STUD_2x6_16OC == "2x6 @ 16oc"
STUD_2x6_24OC == "2x6 @ 24oc"
FramingType == {STUD_2x4_16OC, STUD_2x4_24OC, STUD_2x6_16OC, STUD_2x6_24OC}

\* the pieces of each framing label, for the code's substring tests
FramingPieces(ft) ==
    CASE ft = STUD_2x4_16OC -> <<"2x4", " @ ", "16oc">>
      [] ft = STUD_2x4_24OC -> <<"2x4", " @ ", "24oc">>
      [] ft = STUD_2x6_16OC -> <<"2x6", " @ ", "16oc">>
      [] ft = STUD_2x6_24OC -> <<"2x6", " @ ", "24oc">>

\* Python's `piece in framing_str`
InStr(piece, ft) == \E i \in DOMAIN FramingPieces(ft) : FramingPieces(ft)[i] = piece

BEDROOM  == "Bedroom"
KITCHEN  == "Kitchen"
BATHROOM == "Bathroom"
LIVING   == "Living Room"
UTILITY  == "Utility"
RoomType == {BEDROOM, KITCHEN, BATHROOM, LIVING, UTILITY}

ClimateZone == 1..8

----------------------------------------------------------------------------
(* Data model: derived properties *)

\* Window.area_sqft
WindowArea(w) == RDiv(RMul(w.width_inches, w.height_inches), FromInt(144))

\* Window.clear_opening_sqft: 90% of the area
ClearOpening(w) == RMul(WindowArea(w), Rat(9, 10))

\* Wall.area_sqft
WallArea(wall) == RMul(wall.length_feet, wall.height_feet)

\* a faulty variant: the openings are not deducted
NetAreaGross(wall) == WallArea(wall)

\* Wall.net_area_sqft
NetArea(wall) ==
    LET window_area == RSum([i \in DOMAIN wall.windows |-> WindowArea(wall.windows[i])])
    IN  RSub(WallArea(wall), window_area)

\* a faulty variant: the R-value of the outermost layer alone
TotalRValueLastLayer(wall) ==
    IF wall.layers = <<>> THEN FromInt(0) ELSE wall.layers[Len(wall.layers)].r_value

\* Wall.total_r_value
TotalRValue(wall) == RSum([i \in DOMAIN wall.layers |-> wall.layers[i].r_value])

\* a faulty variant: the "24oc" branch is missing
StudSpacingAlways16(wall) ==
    IF InStr("16oc", wall.framing_type) THEN 16
    ELSE 16

\* Wall.stud_spacing_inches
StudSpacingInches(wall) ==
    IF InStr("16oc", wall.framing_type) THEN 16
    ELSE IF InStr("24oc", wall.framing_type) THEN 24
    ELSE 16

\* Room.get_all_windows
RECURSIVE WindowsOfWalls(_)
WindowsOfWalls(walls) ==
    IF walls = <<>> THEN <<>>
    ELSE WindowsOfWalls(SubSeq(walls, 1, Len(walls) - 1)) \o walls[Len(walls)].windows

GetAllWindows(room) == WindowsOfWalls(room.walls)

\* a faulty variant: the result starts as the first wall's own list (`windows =
\* self.walls[0].windows`), which extend() then lengthens
RoomAfterGetAllWindowsAliased(room) ==
    IF room.walls = <<>> THEN room
    ELSE [room EXCEPT !.walls[1].windows = @ \o GetAllWindows(room)]

\* the room after get_all_windows ran: `windows = []` is a list of its own, so
\* extend() lengthens that list and no wall's
RoomAfterGetAllWindows(room) == room

\* Construction.  src/api.py: a pydantic model checks the constraints of its
\* fields when it is constructed and raises ValidationError; the nested models
\* are constructed, and checked, first.  Field(..., gt=0) is 0 < x.

MaterialLayerRaises(layer) ==
    IF RLt(FromInt(0), layer.thickness_inches) /\ RGe(layer.r_value, FromInt(0))
    THEN "None"
    ELSE "ValidationError"

WindowRaises(w) ==
    IF /\ RLt(FromInt(0), w.width_inches)
       /\ RLt(FromInt(0), w.height_inches)
       /\ RLt(FromInt(0), w.u_factor) /\ RGe(FromInt(2), w.u_factor)
    THEN "None"
    ELSE "ValidationError"

\* Wall.validate_height
validate_height(v) ==
    IF RLt(v, FromInt(6)) THEN "ValueError"
    ELSE IF RLt(FromInt(20), v) THEN "ValueError"
    ELSE "None"

\* pydantic reports the validator's ValueError as a ValidationError
WallRaises(wall) ==
    FirstRaised([i \in DOMAIN wall.layers |-> MaterialLayerRaises(wall.layers[i])]
                \o [j \in DOMAIN wall.windows |-> WindowRaises(wall.windows[j])]
                \o << IF /\ RLt(FromInt(0), wall.length_feet)
                         /\ RLt(FromInt(0), wall.height_feet)
                         /\ validate_height(wall.height_feet) = "None"
                      THEN "None" ELSE "ValidationError" >>)

RoomRaises(room) ==
    FirstRaised([i \in DOMAIN room.walls |-> WallRaises(room.walls[i])]
                \o << IF RLt(FromInt(0), room.ceiling_height_feet) /\ Len(room.walls) >= 1
                      THEN "None" ELSE "ValidationError" >>)

ProjectRaises(p) ==
    FirstRaised([i \in DOMAIN p.rooms |-> RoomRaises(p.rooms[i])]
                \o << IF Len(p.rooms) >= 1 THEN "None" ELSE "ValidationError" >>)

----------------------------------------------------------------------------
(* MaterialCalculator *)

NumStudsVertical(wall) ==
    PyInt(RDiv(RMul(wall.length_feet, FromInt(12)), FromInt(StudSpacingInches(wall)))) + 1

\* what the first statement, `int((wall.length_feet * 12) / wall.stud_spacing_inches)`,
\* raises; nothing after it can raise
WallMaterialsRaises(wall) ==
    LET inches  == RMul(wall.length_feet, FromInt(12))
        spacing == FromInt(StudSpacingInches(wall))
    IN  FirstRaised(<< RDivRaises(inches, spacing),
                       IF RDivRaises(inches, spacing) = "None"
                       THEN PyIntRaises(RDiv(inches, spacing)) ELSE "None" >>)

NumStudsPlates == 3

TotalStuds(wall) == NumStudsVertical(wall) + NumStudsPlates

\* a faulty variant: the trench runs under interior walls too
GravelEveryWall(wall) ==
    LET trench_volume_cuft == RMul(RMul(wall.length_feet, FromInt(2)), Rat(1, 2))
    IN  RDiv(trench_volume_cuft, FromInt(27))

GravelCubicYards(wall) ==
    IF wall.is_exterior
    THEN LET trench_volume_cuft == RMul(RMul(wall.length_feet, FromInt(2)), Rat(1, 2))
         IN  RDiv(trench_volume_cuft, FromInt(27))
    ELSE FromInt(0)

StudLinearFeet(wall) == RMul(FromInt(TotalStuds(wall)), wall.height_feet)

\* a faulty variant: a single top plate
TopPlateSingle(wall) == wall.length_feet

TopPlateLf(wall) == RMul(wall.length_feet, FromInt(2))

BottomPlateLf(wall) == wall.length_feet

calculate_wall_materials(wall) ==
    [studs_count        |-> TotalStuds(wall),
     stud_linear_feet   |-> StudLinearFeet(wall),
     top_plate_lf       |-> TopPlateLf(wall),
     bottom_plate_lf    |-> BottomPlateLf(wall),
     sheathing_sqft     |-> WallArea(wall),
     drywall_sqft       |-> WallArea(wall),
     insulation_sqft    |-> NetArea(wall),
     gravel_cubic_yards |-> GravelCubicYards(wall)]

\* a faulty variant: the totals dictionary is one object shared by the calls, and
\* the project's totals are never reset
TotalsKeptBetweenCalls ==
    IF call.op = "calculate_project_materials" /\ call.raised = "None" THEN ret
    ELSE [studs_count        |-> 0,
          stud_linear_feet   |-> <<0, 1>>,
          top_plate_lf       |-> <<0, 1>>,
          bottom_plate_lf    |-> <<0, 1>>,
          sheathing_sqft     |-> <<0, 1>>,
          drywall_sqft       |-> <<0, 1>>,
          insulation_sqft    |-> <<0, 1>>,
          gravel_cubic_yards |-> <<0, 1>>]

\* the totals dictionary both aggregators start from
ZeroTotals ==
    [studs_count        |-> 0,
     stud_linear_feet   |-> FromInt(0),
     top_plate_lf       |-> FromInt(0),
     bottom_plate_lf    |-> FromInt(0),
     sheathing_sqft     |-> FromInt(0),
     drywall_sqft       |-> FromInt(0),
     insulation_sqft    |-> FromInt(0),
     gravel_cubic_yards |-> FromInt(0)]

\* a faulty variant: `=` for `+=`
AddIntoOverwrite(totals, materials) ==
    [key \in DOMAIN totals |->
        IF key \in DOMAIN materials THEN materials[key] ELSE totals[key]]

\* `for key in totals: totals[key] += materials.get(key, 0)`
AddInto(totals, materials) ==
    [key \in DOMAIN totals |->
        LET m == IF key \in DOMAIN materials THEN materials[key]
                 ELSE IF key = "studs_count" THEN 0 ELSE FromInt(0)
        IN  IF key = "studs_count" THEN totals[key] + m ELSE RAdd(totals[key], m)]

RECURSIVE SumWalls(_)
SumWalls(walls) ==
    IF walls = <<>> THEN ZeroTotals
    ELSE AddInto(SumWalls(SubSeq(walls, 1, Len(walls) - 1)),
                 calculate_wall_materials(walls[Len(walls)]))

\* a faulty variant: a room that fails the ceiling height check is left out of
\* the takeoff
CalculateRoomMaterialsCompliantOnly(room) ==
    IF RLt(room.ceiling_height_feet, FromInt(7)) THEN ZeroTotals
    ELSE SumWalls(room.walls)

calculate_room_materials(room) == SumWalls(room.walls)

RoomMaterialsRaises(room) ==
    FirstRaised([i \in DOMAIN room.walls |-> WallMaterialsRaises(room.walls[i])])

RECURSIVE SumRooms(_)
SumRooms(rooms) ==
    IF rooms = <<>> THEN ZeroTotals
    ELSE AddInto(SumRooms(SubSeq(rooms, 1, Len(rooms) - 1)),
                 calculate_room_materials(rooms[Len(rooms)]))

\* a faulty variant: the totals are started afresh for every room
CalculateProjectLastRoom(p) == SumRooms(SubSeq(p.rooms, Len(p.rooms), Len(p.rooms)))

calculate_project_materials(p) == SumRooms(p.rooms)

ProjectMaterialsRaises(p) ==
    FirstRaised([i \in DOMAIN p.rooms |-> RoomMaterialsRaises(p.rooms[i])])

----------------------------------------------------------------------------
(* CodeValidator *)

\* a number interpolated into an f-string, as the text of its exact value
Str(x) == ToString(x)

\* `{x:.Nf}`: x rounded to a multiple of 1/scale (scale = 10^N). A tie of the
\* exact value goes to the even neighbour; Python decides it on the float's binary
\* value, which gives the same digits for the one tie among the inputs here
\* (20.65, printed 20.6).
RoundTo(x, scale) ==
    LET n == x[1] * scale
        q == n \div x[2]
        r == n % x[2]
    IN  IF 2 * r > x[2] \/ (2 * r = x[2] /\ q % 2 = 1) THEN Rat(q + 1, scale)
        ELSE Rat(q, scale)

ComplianceResult(code, severity, message, component) ==
    [code |-> code, severity |-> severity, message |-> message, component |-> component]

MIN_HEIGHT == FromInt(7)

\* a faulty variant: a ceiling of exactly the minimum fails too
CheckCeilingHeightInclusive(room) ==
    IF ~RLt(MIN_HEIGHT, room.ceiling_height_feet)
    THEN << ComplianceResult("IRC R305.1", "ERROR",
                <<"Ceiling height ", Str(room.ceiling_height_feet),
                  "ft is below minimum ", Str(MIN_HEIGHT), "ft">>,
                <<room.room_type>>) >>
    ELSE <<>>

\* a faulty variant: the finding is made without a component, which then holds
\* its default, None
CheckCeilingHeightNoComponent(room) ==
    IF RLt(room.ceiling_height_feet, MIN_HEIGHT)
    THEN << ComplianceResult("IRC R305.1", "ERROR",
                <<"Ceiling height ", Str(room.ceiling_height_feet),
                  "ft is below minimum ", Str(MIN_HEIGHT), "ft">>,
                <<>>) >>
    ELSE <<>>

_check_ceiling_height(room) ==
    IF RLt(room.ceiling_height_feet, MIN_HEIGHT)
    THEN << ComplianceResult("IRC R305.1", "ERROR",
                <<"Ceiling height ", Str(room.ceiling_height_feet),
                  "ft is below minimum ", Str(MIN_HEIGHT), "ft">>,
                <<room.room_type>>) >>
    ELSE <<>>

MIN_CLEAR_OPENING == Rat(57, 10)

\* a faulty variant: the openings are added up before the comparison
HasCompliantEgressSummed(windows) ==
    RGe(RSum([i \in DOMAIN windows |-> ClearOpening(windows[i])]), MIN_CLEAR_OPENING)

\* the loop `for window in windows: if ... >= MIN_CLEAR_OPENING: ...; break`
HasCompliantEgress(windows) ==
    \E i \in DOMAIN windows : RGe(ClearOpening(windows[i]), MIN_CLEAR_OPENING)

\* a faulty variant: the opening of the last window is reported
MaxOpeningLast(windows) == ClearOpening(windows[Len(windows)])

\* max(w.clear_opening_sqft for w in windows), windows non-empty
MaxOpening(windows) ==
    LET i == CHOOSE i \in DOMAIN windows :
                 \A j \in DOMAIN windows :
                     RGe(ClearOpening(windows[i]), ClearOpening(windows[j]))
    IN  ClearOpening(windows[i])

_check_bedroom_egress(room) ==
    LET windows == GetAllWindows(room) IN
    IF windows = <<>>
    THEN << ComplianceResult("IRC R310.1", "ERROR",
                <<"Bedroom requires at least one egress window">>,
                <<room.room_type>>) >>
    ELSE IF ~HasCompliantEgress(windows)
    THEN << ComplianceResult("IRC R310.1", "ERROR",
                <<"No window meets egress requirement. ",
                  "Required: ", Str(MIN_CLEAR_OPENING), " sq ft, ",
                  "Largest found: ", Str(RoundTo(MaxOpening(windows), 100)), " sq ft">>,
                <<room.room_type>>) >>
    ELSE <<>>

\* what the check raises: max() is the one call in it that can
EgressRaises(room) ==
    LET windows == GetAllWindows(room) IN
    IF windows = <<>> THEN "None"
    ELSE IF ~HasCompliantEgress(windows) THEN MaxRaises(windows)
    ELSE "None"

\* a faulty variant: zones 7 and 8 are held to the requirement of zones 5 and 6
RValueRequirementsThreeTiers ==
    [zone \in ClimateZone |->
        CASE zone \in {1, 2, 3} -> 13
          [] zone = 4          -> 15
          [] zone \in 5..8     -> 20]

IECC_RVALUE_REQUIREMENTS ==
    [zone \in ClimateZone |->
        CASE zone \in {1, 2, 3} -> 13
          [] zone = 4          -> 15
          [] zone \in {5, 6}   -> 20
          [] zone \in {7, 8}   -> 21]

\* IECC_RVALUE_REQUIREMENTS.get(project.climate_zone, 20)
RequiredRValue(p) ==
    IF p.climate_zone \in DOMAIN IECC_RVALUE_REQUIREMENTS
    THEN IECC_RVALUE_REQUIREMENTS[p.climate_zone]
    ELSE 20

\* a faulty variant: the walls are numbered from 0
ThermalFindingZeroBased(wall, i, p) ==
    IF wall.is_exterior /\ RLt(TotalRValue(wall), FromInt(RequiredRValue(p)))
    THEN << ComplianceResult("IECC R402.1", "ERROR",
                <<"Exterior wall R-value ", Str(RoundTo(TotalRValue(wall), 10)),
                  " below required ", Str(RequiredRValue(p)),
                  " for Climate Zone ", Str(p.climate_zone)>>,
                <<"Wall #", Str(i - 1), " (", wall.framing_type, ")">>) >>
    ELSE <<>>

\* the finding of wall number i (1-based), if it has one
ThermalFinding(wall, i, p) ==
    IF wall.is_exterior /\ RLt(TotalRValue(wall), FromInt(RequiredRValue(p)))
    THEN << ComplianceResult("IECC R402.1", "ERROR",
                <<"Exterior wall R-value ", Str(RoundTo(TotalRValue(wall), 10)),
                  " below required ", Str(RequiredRValue(p)),
                  " for Climate Zone ", Str(p.climate_zone)>>,
                <<"Wall #", Str(i), " (", wall.framing_type, ")">>) >>
    ELSE <<>>

\* `for i, wall in enumerate(room.walls)`, over the first n walls
RECURSIVE ThermalLoop(_, _, _)
ThermalLoop(room, p, n) ==
    IF n = 0 THEN <<>>
    ELSE ThermalLoop(room, p, n - 1) \o ThermalFinding(room.walls[n], n, p)

_check_thermal_envelope(room, p) == ThermalLoop(room, p, Len(room.walls))

\* a faulty variant: the thermal envelope is checked before the egress windows
ValidateRoomThermalBeforeEgress(room, p) ==
    _check_ceiling_height(room)
    \o _check_thermal_envelope(room, p)
    \o (IF room.room_type = BEDROOM THEN _check_bedroom_egress(room) ELSE <<>>)

validate_room(room, p) ==
    _check_ceiling_height(room)
    \o (IF room.room_type = BEDROOM THEN _check_bedroom_egress(room) ELSE <<>>)
    \o _check_thermal_envelope(room, p)

\* the ceiling and the thermal check compare, look up and format, none of which
\* raises
ValidateRoomRaises(room, p) ==
    IF room.room_type = BEDROOM THEN EgressRaises(room) ELSE "None"

\* the room after validate_room ran: the checks read the room's fields, and
\* the egress check calls get_all_windows
RoomAfterValidate(room) ==
    IF room.room_type = BEDROOM THEN RoomAfterGetAllWindows(room) ELSE room

\* a faulty variant: the enumerate index is used as it is
RoomLabelZeroBased(room_idx, room) == <<"Room ", Str(room_idx), " (", room.room_type, ")">>

\* "Room {room_idx + 1} ({room_type_str})"
RoomLabel(room_idx, room) == <<"Room ", Str(room_idx + 1), " (", room.room_type, ")">>

\* the rewrite of one finding's component; an unset or empty component is <<>>
AddRoomContext(error, room_idx, room) ==
    IF error.component # <<>>
    THEN [error EXCEPT !.component = RoomLabel(room_idx, room) \o <<" - ">> \o @]
    ELSE [error EXCEPT !.component = RoomLabel(room_idx, room)]

RoomErrors(p, room_idx) ==
    LET room == p.rooms[room_idx + 1]
        room_errors == validate_room(room, p)
    IN  [k \in DOMAIN room_errors |-> AddRoomContext(room_errors[k], room_idx, room)]

\* `for room_idx, room in enumerate(project.rooms)`, over the first n rooms
RECURSIVE ValidateLoop(_, _)
ValidateLoop(p, n) ==
    IF n = 0 THEN <<>>
    ELSE ValidateLoop(p, n - 1) \o RoomErrors(p, n - 1)

validate_project(p) == ValidateLoop(p, Len(p.rooms))

\* the project after validate_project ran: `error.component = ...` assigns to
\* the findings validate_room has just made, not to the tree
ProjectAfterValidate(p) ==
    [p EXCEPT !.rooms = [i \in DOMAIN p.rooms |-> RoomAfterValidate(p.rooms[i])]]

ValidateProjectRaises(p) ==
    FirstRaised([i \in DOMAIN p.rooms |-> ValidateRoomRaises(p.rooms[i], p)])

----------------------------------------------------------------------------
(* The dataclass module, src/parametric_building_configurator.py: its own copy
   of the data model, the MaterialCalculator and the CodeValidator.  Its
   enumerations are plain Enum classes, so a field holds the member, a record
   of a name and a value, where a model of src/api.py holds the value alone. *)

Member(name, value) == [name |-> name, value |-> value]

DataclassFramingType ==
    {Member("STUD_2x4_16OC", "2x4 @ 16oc"), Member("STUD_2x4_24OC", "2x4 @ 24oc"),
     Member("STUD_2x6_16OC", "2x6 @ 16oc"), Member("STUD_2x6_24OC", "2x6 @ 24oc")}

DataclassRoomType ==
    {Member("BEDROOM", "Bedroom"), Member("KITCHEN", "Kitchen"),
     Member("BATHROOM", "Bathroom"), Member("LIVING", "Living Room"),
     Member("UTILITY", "Utility")}

DataclassClimateZone ==
    {Member("ZONE_1", 1), Member("ZONE_2", 2), Member("ZONE_3", 3), Member("ZONE_4", 4),
     Member("ZONE_5", 5), Member("ZONE_6", 6), Member("ZONE_7", 7), Member("ZONE_8", 8)}

\* Enum lookup by value, as in FramingType("2x6 @ 16oc")
ByValue(members, value) == CHOOSE m \in members : m.value = value

\* the tree of dataclasses the host builds from the same values
AsDataclassWall(wall) ==
    [wall EXCEPT !.framing_type = ByValue(DataclassFramingType, @)]

AsDataclassRoom(room) ==
    [room EXCEPT !.room_type = ByValue(DataclassRoomType, @),
                 !.walls = [i \in DOMAIN @ |-> AsDataclassWall(@[i])]]

AsDataclassProject(p) ==
    [p EXCEPT !.climate_zone = ByValue(DataclassClimateZone, @),
              !.rooms = [i \in DOMAIN @ |-> AsDataclassRoom(@[i])]]

\* Construction: the __init__ that @dataclass generates assigns the fields and
\* checks nothing
DataclassProjectRaises(p) == "None"

DataclassWindowArea(w) == RDiv(RMul(w.width_inches, w.height_inches), FromInt(144))

DataclassClearOpening(w) == RMul(DataclassWindowArea(w), Rat(9, 10))

DataclassWallArea(wall) == RMul(wall.length_feet, wall.height_feet)

DataclassNetArea(wall) ==
    RSub(DataclassWallArea(wall),
         RSum([i \in DOMAIN wall.windows |-> DataclassWindowArea(wall.windows[i])]))

DataclassTotalRValue(wall) == RSum([i \in DOMAIN wall.layers |-> wall.layers[i].r_value])

\* a faulty variant: the tests are made on the member's name, "STUD_2x4_24OC",
\* in which neither "16oc" nor "24oc" occurs
DataclassStudSpacingByName(wall) == 16

\* Wall.stud_spacing_inches: the tests are made on framing_type.value
DataclassStudSpacingInches(wall) ==
    IF InStr("16oc", wall.framing_type.value) THEN 16
    ELSE IF InStr("24oc", wall.framing_type.value) THEN 24
    ELSE 16

RECURSIVE DataclassWindowsOfWalls(_)
DataclassWindowsOfWalls(walls) ==
    IF walls = <<>> THEN <<>>
    ELSE DataclassWindowsOfWalls(SubSeq(walls, 1, Len(walls) - 1))
             \o walls[Len(walls)].windows

DataclassWallMaterialsRaises(wall) ==
    LET inches  == RMul(wall.length_feet, FromInt(12))
        spacing == FromInt(DataclassStudSpacingInches(wall))
    IN  FirstRaised(<< RDivRaises(inches, spacing),
                       IF RDivRaises(inches, spacing) = "None"
                       THEN PyIntRaises(RDiv(inches, spacing)) ELSE "None" >>)

dataclass_calculate_wall_materials(wall) ==
    LET num_studs_vertical ==
            PyInt(RDiv(RMul(wall.length_feet, FromInt(12)),
                       FromInt(DataclassStudSpacingInches(wall)))) + 1
        num_studs_plates == 3
        total_studs == num_studs_vertical + num_studs_plates
    IN  [studs_count        |-> total_studs,
         stud_linear_feet   |-> RMul(FromInt(total_studs), wall.height_feet),
         top_plate_lf       |-> RMul(wall.length_feet, FromInt(2)),
         bottom_plate_lf    |-> wall.length_feet,
         sheathing_sqft     |-> DataclassWallArea(wall),
         drywall_sqft       |-> DataclassWallArea(wall),
         insulation_sqft    |-> DataclassNetArea(wall),
         gravel_cubic_yards |->
             IF wall.is_exterior
             THEN RDiv(RMul(RMul(wall.length_feet, FromInt(2)), Rat(1, 2)), FromInt(27))
             ELSE FromInt(0)]

RECURSIVE DataclassSumWalls(_)
DataclassSumWalls(walls) ==
    IF walls = <<>>
    THEN [studs_count |-> 0, stud_linear_feet |-> FromInt(0), top_plate_lf |-> FromInt(0),
          bottom_plate_lf |-> FromInt(0), sheathing_sqft |-> FromInt(0),
          drywall_sqft |-> FromInt(0), insulation_sqft |-> FromInt(0),
          gravel_cubic_yards |-> FromInt(0)]
    ELSE LET totals == DataclassSumWalls(SubSeq(walls, 1, Len(walls) - 1))
             wall_materials == dataclass_calculate_wall_materials(walls[Len(walls)])
         IN  [key \in DOMAIN totals |->
                 IF key = "studs_count" THEN totals[key] + wall_materials[key]
                 ELSE RAdd(totals[key], wall_materials[key])]

dataclass_calculate_room_materials(room) == DataclassSumWalls(room.walls)

DataclassRoomMaterialsRaises(room) ==
    FirstRaised([i \in DOMAIN room.walls |-> DataclassWallMaterialsRaises(room.walls[i])])

ValidationError(code, severity, message, component) ==
    [code |-> code, severity |-> severity, message |-> message, component |-> component]

DataclassCheckCeilingHeight(room) ==
    IF RLt(room.ceiling_height_feet, FromInt(7))
    THEN << ValidationError("IRC R305.1", "ERROR",
                <<"Ceiling height ", ToString(room.ceiling_height_feet),
                  "ft is below minimum ", ToString(FromInt(7)), "ft">>,
                <<room.room_type.value>>) >>
    ELSE <<>>

DataclassCheckBedroomEgress(room) ==
    LET windows == DataclassWindowsOfWalls(room.walls)
        opening(i) == DataclassClearOpening(windows[i])
        largest == CHOOSE i \in DOMAIN windows :
                       \A j \in DOMAIN windows : RGe(opening(i), opening(j))
    IN  IF windows = <<>>
        THEN << ValidationError("IRC R310.1", "ERROR",
                    <<"Bedroom requires at least one egress window">>,
                    <<room.room_type.value>>) >>
        ELSE IF \A i \in DOMAIN windows : ~RGe(opening(i), Rat(57, 10))
        THEN << ValidationError("IRC R310.1", "ERROR",
                    <<"No window meets egress requirement. ",
                      "Required: ", ToString(Rat(57, 10)), " sq ft, ",
                      "Largest found: ", ToString(RoundTo(opening(largest), 100)),
                      " sq ft">>,
                    <<room.room_type.value>>) >>
        ELSE <<>>

\* IECC_RVALUE_REQUIREMENTS, keyed by the members of ClimateZone
DataclassRValueRequirements ==
    [zone \in DataclassClimateZone |->
        CASE zone.name \in {"ZONE_1", "ZONE_2", "ZONE_3"} -> 13
          [] zone.name = "ZONE_4"                         -> 15
          [] zone.name \in {"ZONE_5", "ZONE_6"}           -> 20
          [] zone.name \in {"ZONE_7", "ZONE_8"}           -> 21]

RECURSIVE DataclassThermalLoop(_, _, _)
DataclassThermalLoop(room, p, n) ==
    IF n = 0 THEN <<>>
    ELSE LET wall == room.walls[n]
             required_rvalue ==
                 IF p.climate_zone \in DOMAIN DataclassRValueRequirements
                 THEN DataclassRValueRequirements[p.climate_zone] ELSE 20
         IN  DataclassThermalLoop(room, p, n - 1)
             \o (IF wall.is_exterior
                    /\ RLt(DataclassTotalRValue(wall), FromInt(required_rvalue))
                 THEN << ValidationError("IECC R402.1", "ERROR",
                             <<"Exterior wall R-value ",
                               ToString(RoundTo(DataclassTotalRValue(wall), 10)),
                               " below required ", ToString(required_rvalue),
                               " for Climate Zone ", ToString(p.climate_zone.value)>>,
                             <<"Wall #", ToString(n), " (", wall.framing_type.value, ")">>) >>
                 ELSE <<>>)

\* a faulty variant: the findings of the first validation are kept and returned
\* by every later one
DataclassValidateRoomMemoized(room, p) ==
    IF history.on /\ history.calls["dataclass.validate_room"] > 0
    THEN history.first["dataclass.validate_room"]
    ELSE DataclassCheckCeilingHeight(room)
         \o (IF room.room_type = Member("BEDROOM", "Bedroom")
             THEN DataclassCheckBedroomEgress(room) ELSE <<>>)
         \o DataclassThermalLoop(room, p, Len(room.walls))

dataclass_validate_room(room, p) ==
    DataclassCheckCeilingHeight(room)
    \o (IF room.room_type = Member("BEDROOM", "Bedroom")
        THEN DataclassCheckBedroomEgress(room) ELSE <<>>)
    \o DataclassThermalLoop(room, p, Len(room.walls))

DataclassValidateRoomRaises(room) ==
    LET windows == DataclassWindowsOfWalls(room.walls)
        opening(i) == DataclassClearOpening(windows[i])
    IN  IF room.room_type = Member("BEDROOM", "Bedroom") /\ windows # <<>>
           /\ \A i \in DOMAIN windows : ~RGe(opening(i), Rat(57, 10))
        THEN MaxRaises(windows)
        ELSE "None"

----------------------------------------------------------------------------
(* Inputs: the components the host builds projects from *)

MaxWindows == 2     \* windows per wall, in single-wall projects
MaxWalls   == 2     \* walls per room, in single-room projects
MaxRooms   == 2     \* rooms per project
MaxLayers  == 2     \* layers a host adds to the walls of one room

SeqsUpTo(S, n) == UNION {[1..k -> S] : k \in 0..n}
SeqsFromTo(S, m, n) == UNION {[1..k -> S] : k \in m..n}

Window(w, h) ==
    [width_inches |-> FromInt(w), height_inches |-> FromInt(h),
     u_factor |-> Rat(30, 100), window_type |-> "Double-Hung"]

W24x24 == Window(24, 24)    \* clear opening 3.6 sq ft
W24x38 == Window(24, 38)    \* clear opening 5.7 sq ft, the threshold itself
W36x48 == Window(36, 48)    \* clear opening 10.8 sq ft

BattR13 == [name |-> "Fiberglass Batt R-13", thickness_inches |-> Rat(7, 2),
            r_value |-> FromInt(13)]
FoamR8  == [name |-> "Rigid Foam R-8", thickness_inches |-> Rat(3, 2),
            r_value |-> FromInt(8)]

Walls(lengths, heights, framings, exteriors, layerSeqs, windowSeqs) ==
    [length_feet : lengths, height_feet : heights, framing_type : framings,
     is_exterior : exteriors, layers : layerSeqs, windows : windowSeqs]

Rooms(types, ceilings, wallSeqs) ==
    [room_type : types, ceiling_height_feet : ceilings, walls : wallSeqs]

Projects(zones, roomSeqs) ==
    [name : {"Maine Residence"}, location_zip : {"04101"},
     climate_zone : zones, rooms : roomSeqs]

\* Single-wall projects: every framing type, lengths below and across a stud
\* spacing, every room type, ceilings around 7.0.
SingleWalls ==
    Walls({FromInt(1), FromInt(4), Rat(21, 2)}, {FromInt(8), FromInt(20)},
          FramingType, BOOLEAN,
          {<<>>, <<BattR13, FoamR8>>}, SeqsUpTo({W24x24, W36x48}, MaxWindows))

WallProjects ==
    Projects({6}, SeqsFromTo(Rooms(RoomType, {Rat(13, 2), FromInt(7), FromInt(8)},
                                   SeqsFromTo(SingleWalls, 1, 1)), 1, 1))

\* Single-room projects: exterior walls of R-13 and R-21, which is at or above
\* the requirement of zone 3 (13) and below or at that of zone 7 (21), interior
\* walls among them, windows below and at the egress threshold, ceilings below
\* and at 7.0.
ExteriorWalls ==
    Walls({FromInt(12)}, {FromInt(8)}, {STUD_2x6_16OC, STUD_2x4_24OC}, {TRUE},
          {<<BattR13>>, <<BattR13, FoamR8>>}, {<<>>, <<W24x24>>})

InteriorWalls ==
    Walls({Rat(21, 2)}, {FromInt(8)}, {STUD_2x4_16OC}, {FALSE},
          {<<>>}, {<<>>, <<W24x38>>})

RoomProjects ==
    Projects({3, 7}, SeqsFromTo(Rooms({BEDROOM, KITCHEN}, {Rat(13, 2), FromInt(7)},
                                      SeqsFromTo(ExteriorWalls \cup InteriorWalls,
                                                 1, MaxWalls)), 1, 1))

\* Projects of several rooms, each of one or two walls.
ExtWall ==
    [length_feet |-> FromInt(12), height_feet |-> FromInt(8),
     framing_type |-> STUD_2x6_16OC, is_exterior |-> TRUE,
     layers |-> <<BattR13>>, windows |-> <<W24x24>>]

IntWall ==
    [length_feet |-> Rat(21, 2), height_feet |-> FromInt(9),
     framing_type |-> STUD_2x4_24OC, is_exterior |-> FALSE,
     layers |-> <<>>, windows |-> <<W36x48>>]

ShortWall ==
    [length_feet |-> FromInt(4), height_feet |-> FromInt(8),
     framing_type |-> STUD_2x4_16OC, is_exterior |-> TRUE,
     layers |-> <<BattR13, FoamR8>>, windows |-> <<>>]

ManyRoomProjects ==
    Projects({3, 7}, SeqsFromTo(Rooms({BEDROOM, KITCHEN}, {Rat(13, 2), FromInt(8)},
                                      {<<ExtWall>>, <<IntWall, ExtWall>>,
                                       <<ShortWall, IntWall>>}),
                                1, MaxRooms))

\* The exterior wall assembly of the demonstration: 0.6 + 0.6 + 19.0 + 0.45 =
\* 20.65 in all.
exterior_layers ==
    << [name |-> "Vinyl Siding", thickness_inches |-> Rat(1, 2), r_value |-> Rat(6, 10)],
       [name |-> "OSB Sheathing", thickness_inches |-> Rat(1, 2), r_value |-> Rat(6, 10)],
       [name |-> "Fiberglass Batt R-19", thickness_inches |-> Rat(11, 2),
        r_value |-> FromInt(19)],
       [name |-> "Drywall", thickness_inches |-> Rat(1, 2), r_value |-> Rat(45, 100)] >>

BattR15 == [name |-> "Fiberglass Batt R-15", thickness_inches |-> Rat(7, 2),
            r_value |-> FromInt(15)]
FoamR5  == [name |-> "Rigid Foam R-5", thickness_inches |-> FromInt(1),
            r_value |-> FromInt(5)]

\* Single-wall projects in every climate zone: assemblies of R-0, R-13, R-15,
\* R-20, R-20.65 and R-21, which are the four requirements, a value between the
\* two highest and a value below all of them, on exterior and on interior walls.
ZoneProjects ==
    Projects(ClimateZone,
             SeqsFromTo(Rooms({BEDROOM, LIVING}, {FromInt(8)},
                              SeqsFromTo(Walls({FromInt(12)}, {FromInt(8)},
                                               {STUD_2x6_16OC}, BOOLEAN,
                                               {<<>>, <<BattR13>>, <<BattR15>>,
                                                <<BattR15, FoamR5>>, exterior_layers,
                                                <<BattR13, FoamR8>>},
                                               {<<>>}),
                                         1, 1)),
                        1, 1))

W20x24 == Window(20, 24)    \* clear opening 3.0 sq ft
W24x30 == Window(24, 30)    \* clear opening 4.5 sq ft

\* Single-room projects of one or two interior walls, with windows of three sizes
\* below the egress threshold and one at it, in any order over the walls.
WindowProjects ==
    Projects({6},
             SeqsFromTo(Rooms({BEDROOM, KITCHEN}, {FromInt(8)},
                              SeqsFromTo(Walls({FromInt(12)}, {FromInt(8)},
                                               {STUD_2x4_16OC}, {FALSE}, {<<>>},
                                               SeqsUpTo({W20x24, W24x24, W24x30, W24x38},
                                                        MaxWindows)),
                                         1, 2)),
                        1, 1))

\* Projects of one or two single-wall rooms, among them walls whose length is
\* beyond what a float times 12 can hold: 1e308 ft, or float('inf').
HugeProjects ==
    Projects({6},
             SeqsFromTo(Rooms({BEDROOM}, {FromInt(8)},
                              SeqsFromTo(Walls({FromInt(12), Infinity}, {FromInt(8)},
                                               {STUD_2x4_16OC, STUD_2x6_24OC}, BOOLEAN,
                                               {<<>>}, {<<>>, <<W24x24>>}),
                                         1, 1)),
                        1, 2))

\* Projects on which the host repeats its calls: one or two 6.5 ft Bedrooms in
\* zone 7, each with findings of its own.
RepeatProjects ==
    Projects({7}, SeqsFromTo(Rooms({BEDROOM}, {Rat(13, 2)},
                                   {<<ExtWall>>, <<IntWall, ExtWall>>}), 1, 2))

\* The demonstration: a 12 x 10 Bedroom in zone 6, three exterior walls of
\* R-20.65 and a party wall without layers, one 24x24 window in the north wall.
small_window == W24x24

compliant_window == [W36x48 EXCEPT !.u_factor = Rat(28, 100)]

north_wall ==
    [length_feet |-> FromInt(12), height_feet |-> FromInt(8),
     framing_type |-> STUD_2x6_16OC, is_exterior |-> TRUE,
     layers |-> exterior_layers, windows |-> <<small_window>>]

south_wall == [north_wall EXCEPT !.windows = <<>>]

east_wall == [south_wall EXCEPT !.length_feet = FromInt(10)]

west_wall == [east_wall EXCEPT !.is_exterior = FALSE, !.layers = <<>>]

bedroom ==
    [room_type |-> BEDROOM, ceiling_height_feet |-> FromInt(8),
     walls |-> <<north_wall, south_wall, east_wall, west_wall>>]

DemoProject ==
    [name |-> "Maine Residence", location_zip |-> "04101", climate_zone |-> 6,
     rooms |-> <<bedroom>>]

\* Projects given to both modules: every framing type, lengths below and across
\* a stud spacing, walls with and without layers and windows, rooms of one and
\* of two walls, in a zone that asks for R-13 and in one that asks for R-21.
BothProjects ==
    Projects({3, 7},
             SeqsFromTo(Rooms({BEDROOM, KITCHEN}, {Rat(13, 2), FromInt(8)},
                              SeqsFromTo(Walls({FromInt(4), Rat(21, 2)}, {FromInt(8)},
                                               FramingType, BOOLEAN,
                                               {<<>>, <<BattR13, FoamR8>>},
                                               {<<>>, <<W24x24>>}),
                                         1, 1)
                                  \cup {<<IntWall, ExtWall>>, <<ShortWall, IntWall>>}),
                        1, 1))

\* Single-room projects a host goes on to improve: one or two bare walls under
\* a ceiling of 6.5 ft, in zone 3, which asks for R-13.
ImproveProjects ==
    Projects({3},
             SeqsFromTo(Rooms({BEDROOM, KITCHEN}, {Rat(13, 2)},
                              SeqsFromTo(Walls({FromInt(12)}, {FromInt(8)},
                                               {STUD_2x6_16OC}, BOOLEAN, {<<>>}, {<<>>}),
                                         1, 2)),
                        1, 1))

\* What a host may try to build: lengths of -4 and 12 ft, heights just outside
\* and at the ends of 6..20, a layer without thickness, a window without width,
\* a ceiling of 0, a room without walls, a project without rooms.
RawProjects ==
    Projects({6},
             SeqsFromTo(Rooms({BEDROOM}, {FromInt(0), FromInt(8)},
                              SeqsFromTo(Walls({FromInt(-4), FromInt(12)},
                                               {Rat(11, 2), FromInt(6), FromInt(20),
                                                Rat(41, 2)},
                                               {STUD_2x6_16OC}, {TRUE},
                                               {<<>>, <<[BattR13 EXCEPT
                                                           !.thickness_inches = FromInt(0)]>>},
                                               {<<>>, <<Window(0, 24)>>}),
                                         0, 1)),
                        0, 1))

----------------------------------------------------------------------------
(* The host: it builds a Project, then invokes the Calculator and the
   Validator on it, in any order and any number of times *)

Modules == {"api", "dataclass"}

Call(op, r, w, exc) == [op |-> op, room |-> r, wall |-> w, raised |-> exc]

NoCall == Call("none", 0, 0, "None")

MaxCalls == 3       \* calls of one operation the host keeps count of

ProjectOps == {"calculate_project_materials", "validate_project"}

KeptOps == ProjectOps \cup {"validate_room", "dataclass.validate_room"}

\* the host keeps nothing
NoHistory == [on |-> FALSE, calls |-> [op \in KeptOps |-> 0],
              first |-> [op \in KeptOps |-> <<>>]]

\* the host keeps, for validate_room and for each project-level operation, how
\* often it has called it and what the first call returned
EmptyHistory == [NoHistory EXCEPT !.on = TRUE]

Countable(op) == history.on => history.calls[op] < MaxCalls

Kept(op, value) ==
    IF ~history.on THEN history
    ELSE [history EXCEPT !.calls[op] = @ + 1,
                         !.first[op] = IF history.calls[op] = 0 THEN value ELSE @]

RoomIdx == DOMAIN project.rooms
WallIdx(r) == DOMAIN project.rooms[r].walls

CalculateWallMaterials(r, w) ==
    LET wall == project.rooms[r].walls[w]
        exc  == WallMaterialsRaises(wall)
    IN  /\ built = "api"
        /\ call' = Call("calculate_wall_materials", r, w, exc)
        /\ ret' = IF exc = "None" THEN calculate_wall_materials(wall) ELSE <<>>
        /\ UNCHANGED <<project, built, history>>

CalculateRoomMaterials(r) ==
    LET room == project.rooms[r]
        exc  == RoomMaterialsRaises(room)
    IN  /\ built = "api"
        /\ call' = Call("calculate_room_materials", r, 0, exc)
        /\ ret' = IF exc = "None" THEN calculate_room_materials(room) ELSE <<>>
        /\ UNCHANGED <<project, built, history>>

CalculateProjectMaterials ==
    LET exc == ProjectMaterialsRaises(project)
    IN  /\ built = "api"
        /\ Countable("calculate_project_materials")
        /\ call' = Call("calculate_project_materials", 0, 0, exc)
        /\ ret' = IF exc = "None" THEN calculate_project_materials(project) ELSE <<>>
        /\ history' = Kept("calculate_project_materials", ret')
        /\ UNCHANGED <<project, built>>

ValidateRoom(r) ==
    LET room == project.rooms[r]
        exc  == ValidateRoomRaises(room, project)
    IN  /\ built = "api"
        /\ Countable("validate_room")
        /\ call' = Call("validate_room", r, 0, exc)
        /\ ret' = IF exc = "None" THEN validate_room(room, project) ELSE <<>>
        /\ history' = Kept("validate_room", ret')
        /\ project' = [project EXCEPT !.rooms[r] = RoomAfterValidate(room)]
        /\ UNCHANGED built

ValidateProject ==
    LET exc == ValidateProjectRaises(project)
    IN  /\ built = "api"
        /\ Countable("validate_project")
        /\ call' = Call("validate_project", 0, 0, exc)
        /\ ret' = IF exc = "None" THEN validate_project(project) ELSE <<>>
        /\ history' = Kept("validate_project", ret')
        /\ project' = ProjectAfterValidate(project)
        /\ UNCHANGED built

\* `north_wall.windows = [compliant_window]`: the host gives a wall of the tree
\* another list of windows
AssignWindows(r, w, windows) ==
    /\ project' = [project EXCEPT !.rooms[r].walls[w].windows = windows]
    /\ call' = Call("Wall.windows =", r, w, "None")
    /\ ret' = <<>>
    /\ UNCHANGED <<built, history>>

Next ==
    \/ \E r \in RoomIdx : \E w \in WallIdx(r) : CalculateWallMaterials(r, w)
    \/ \E r \in RoomIdx : CalculateRoomMaterials(r)
    \/ CalculateProjectMaterials
    \/ \E r \in RoomIdx : ValidateRoom(r)
    \/ ValidateProject

\* The same operations of the dataclass module, on a tree of its dataclasses.
DataclassCalculateWallMaterials(r, w) ==
    LET wall == AsDataclassProject(project).rooms[r].walls[w]
        exc  == DataclassWallMaterialsRaises(wall)
    IN  /\ built = "dataclass"
        /\ call' = Call("dataclass.calculate_wall_materials", r, w, exc)
        /\ ret' = IF exc = "None" THEN dataclass_calculate_wall_materials(wall) ELSE <<>>
        /\ UNCHANGED <<project, built, history>>

DataclassCalculateRoomMaterials(r) ==
    LET room == AsDataclassProject(project).rooms[r]
        exc  == DataclassRoomMaterialsRaises(room)
    IN  /\ built = "dataclass"
        /\ call' = Call("dataclass.calculate_room_materials", r, 0, exc)
        /\ ret' = IF exc = "None" THEN dataclass_calculate_room_materials(room) ELSE <<>>
        /\ UNCHANGED <<project, built, history>>

DataclassValidateRoom(r) ==
    LET p    == AsDataclassProject(project)
        room == p.rooms[r]
        exc  == DataclassValidateRoomRaises(room)
    IN  /\ built = "dataclass"
        /\ Countable("dataclass.validate_room")
        /\ call' = Call("dataclass.validate_room", r, 0, exc)
        /\ ret' = IF exc = "None" THEN dataclass_validate_room(room, p) ELSE <<>>
        /\ history' = Kept("dataclass.validate_room", ret')
        /\ UNCHANGED <<project, built>>

\* the host of both modules
NextBoth ==
    \/ \E r \in RoomIdx : \E w \in WallIdx(r) : CalculateWallMaterials(r, w)
    \/ \E r \in RoomIdx : CalculateRoomMaterials(r)
    \/ CalculateProjectMaterials
    \/ \E r \in RoomIdx : ValidateRoom(r)
    \/ ValidateProject
    \/ \E r \in RoomIdx : \E w \in WallIdx(r) : DataclassCalculateWallMaterials(r, w)
    \/ \E r \in RoomIdx : DataclassCalculateRoomMaterials(r)
    \/ \E r \in RoomIdx : DataclassValidateRoom(r)

\* `wall.layers.append(layer)`: the host adds a layer to a wall of the tree, as
\* long as the room's walls have fewer than MaxLayers layers between them
AppendLayer(r, w, layer) ==
    LET room == project.rooms[r]
        RECURSIVE LayersUpTo(_)
        LayersUpTo(n) == IF n = 0 THEN 0
                         ELSE LayersUpTo(n - 1) + Len(room.walls[n].layers)
    IN  /\ built = "api"
        /\ LayersUpTo(Len(room.walls)) < MaxLayers
        /\ MaterialLayerRaises(layer) = "None"
        /\ project' = [project EXCEPT !.rooms[r].walls[w].layers = Append(@, layer)]
        /\ call' = Call("Wall.layers.append", r, w, "None")
        /\ ret' = <<>>
        /\ UNCHANGED <<built, history>>

\* `wall.windows.append(window)`, as long as the room has fewer than MaxWindows
\* windows
AppendWindow(r, w, window) ==
    /\ built = "api"
    /\ Len(GetAllWindows(project.rooms[r])) < MaxWindows
    /\ WindowRaises(window) = "None"
    /\ project' = [project EXCEPT !.rooms[r].walls[w].windows = Append(@, window)]
    /\ call' = Call("Wall.windows.append", r, w, "None")
    /\ ret' = <<>>
    /\ UNCHANGED <<built, history>>

\* the host that improves its tree between validations: layers of R-0 and R-13,
\* windows below and above the egress threshold
NextImprove ==
    \/ \E r \in RoomIdx : ValidateRoom(r)
    \/ \E r \in RoomIdx : \E w \in WallIdx(r) :
           \E layer \in {[name |-> "Vapor Barrier", thickness_inches |-> Rat(1, 100),
                          r_value |-> FromInt(0)],
                         BattR13} :
               AppendLayer(r, w, layer)
    \/ \E r \in RoomIdx : \E w \in WallIdx(r) :
           \E window \in {W24x24, W36x48} : AppendWindow(r, w, window)

\* The host constructs a tree with the classes of module m, from the layers and
\* windows up to the Project, and keeps the tree it had when that raises.
BuildProject(m, raw) ==
    LET exc == IF m = "api" THEN ProjectRaises(raw) ELSE DataclassProjectRaises(raw)
    IN  /\ call' = Call(IF m = "api" THEN "Project" ELSE "dataclass.Project", 0, 0, exc)
        /\ ret' = <<>>
        /\ project' = IF exc = "None" THEN raw ELSE project
        /\ built' = IF exc = "None" THEN m ELSE built
        /\ UNCHANGED history

\* the host that builds its trees itself
NextBuild ==
    \/ \E r \in RoomIdx : \E w \in WallIdx(r) : CalculateWallMaterials(r, w)
    \/ \E r \in RoomIdx : CalculateRoomMaterials(r)
    \/ CalculateProjectMaterials
    \/ \E r \in RoomIdx : ValidateRoom(r)
    \/ ValidateProject
    \/ \E r \in RoomIdx : \E w \in WallIdx(r) : DataclassCalculateWallMaterials(r, w)
    \/ \E r \in RoomIdx : DataclassCalculateRoomMaterials(r)
    \/ \E r \in RoomIdx : DataclassValidateRoom(r)
    \/ \E m \in Modules : \E raw \in RawProjects : BuildProject(m, raw)

\* the demonstration's host: the dataclass module's operations, and the
\* replacement of the windows of the north wall, the first wall of the first room
NextDemo ==
    \/ \E r \in RoomIdx : \E w \in WallIdx(r) : DataclassCalculateWallMaterials(r, w)
    \/ \E r \in RoomIdx : DataclassCalculateRoomMaterials(r)
    \/ \E r \in RoomIdx : DataclassValidateRoom(r)
    \/ \E windows \in {<<>>, <<small_window>>, <<compliant_window>>} :
           AssignWindows(1, 1, windows)

\* the host has built a tree of `projects` with the classes of a module of
\* `modules`, and keeps what `kept` says
InitWith(projects, modules, kept) ==
    /\ project \in projects
    /\ built \in modules
    /\ call = NoCall
    /\ ret = <<>>
    /\ history = kept

Init == InitWith(ManyRoomProjects, {"api"}, NoHistory)

SpecWall == InitWith(WallProjects, {"api"}, NoHistory) /\ [][Next]_vars
SpecRoom == InitWith(RoomProjects, {"api"}, NoHistory) /\ [][Next]_vars
Spec     == Init /\ [][Next]_vars
SpecZone == InitWith(ZoneProjects, {"api"}, NoHistory) /\ [][Next]_vars
SpecWindow == InitWith(WindowProjects, {"api"}, NoHistory) /\ [][Next]_vars
SpecHuge == InitWith(HugeProjects, {"api"}, NoHistory) /\ [][Next]_vars
\* the host keeps the first result of each project-level operation
SpecRepeat == InitWith(RepeatProjects, {"api"}, EmptyHistory) /\ [][Next]_vars
\* the demonstration: the host keeps the violations of its first validation
SpecDemo == InitWith({DemoProject}, {"dataclass"}, EmptyHistory) /\ [][NextDemo]_vars
SpecImprove == InitWith(ImproveProjects, {"api"}, NoHistory) /\ [][NextImprove]_vars
\* the host builds the tree with the classes of either module
SpecBoth == InitWith(BothProjects, Modules, NoHistory) /\ [][NextBoth]_vars
\* the host has built a tree that either module accepts
SpecBuild ==
    InitWith({p \in RawProjects : ProjectRaises(p) = "None"}, Modules, NoHistory)
        /\ [][NextBuild]_vars

----------------------------------------------------------------------------
(* Properties *)

\* the sum of f[i] over the finite set S of indices, f integer-valued
RECURSIVE SumOver(_, _)
SumOver(f, S) ==
    IF S = {} THEN 0
    ELSE LET i == CHOOSE i \in S : TRUE IN f[i] + SumOver(f, S \ {i})

\* x as a whole number of 1/u units; x is a multiple of 1/u for every input here
Units(x, u) == (x[1] * u) \div x[2]

Exact(x, u) == (x[1] * u) % x[2] = 0

\* the room a room-level call was made on
CalledRoom == project.rooms[call.room]

\* the wall a wall-level call was made on
CalledWall == project.rooms[call.room].walls[call.wall]

WithCode(findings, code) == {i \in DOMAIN findings : findings[i].code = code}

\* every window of every wall of the room, as <<wall index, window index>>
WindowSlots(room) ==
    {<<i, j>> \in (DOMAIN room.walls) \X (1..8) : j \in DOMAIN room.walls[i].windows}

\* width*height/144*0.9 >= 5.7, in whole numbers: inches^2 * 9 >= 57 * 144
Clears(window) ==
    Units(window.width_inches, 1) * Units(window.height_inches, 1) * 9 >= 57 * 144

RHundredths(wall) ==
    SumOver([i \in DOMAIN wall.layers |-> Units(wall.layers[i].r_value, 100)],
            DOMAIN wall.layers)

\* the walls of the room that fail the thermal check: exterior, below the requirement
Offending(room, p) ==
    {i \in DOMAIN room.walls :
        room.walls[i].is_exterior /\ RHundredths(room.walls[i]) < 100 * RequiredRValue(p)}

\* C2: the "IECC R402.1" findings of validate_room are one per exterior wall whose
\* total R-value is strictly below the zone's requirement, in wall order, each
\* with component "Wall #n (framing type)", n being the wall's 1-based position
\* among all the room's walls; interior walls and exterior walls at or above the
\* requirement have none.
C2_ThermalFindings ==
    call.op = "validate_room" =>
        LET room    == CalledRoom
            bad     == Offending(room, project)
            thermal == SelectSeq(ret, LAMBDA f : f.code = "IECC R402.1")
        IN  /\ Len(thermal) = Cardinality(bad)
            /\ \A i \in bad :
                   thermal[Cardinality({j \in bad : j <= i})].component
                       = <<"Wall #", ToString(i), " (", room.walls[i].framing_type, ")">>

\* an interior wall first, then an exterior wall below the requirement: the one
\* thermal finding names wall #2
C2_Witness ==
    /\ call.op = "validate_room"
    /\ Len(CalledRoom.walls) = 2
    /\ ~CalledRoom.walls[1].is_exterior
    /\ Offending(CalledRoom, project) = {2}
    /\ \E k \in DOMAIN ret :
           /\ ret[k].code = "IECC R402.1"
           /\ ret[k].component[2] = "2"

\* ceiling_height_feet < 7.0, in whole numbers
BelowSeven(room) == room.ceiling_height_feet[1] < 7 * room.ceiling_height_feet[2]

\* C3: for a room of any type, validate_room returns exactly one "IRC R305.1"
\* finding, its component the room type, when the ceiling is below 7.0 ft, and
\* none when it is 7.0 ft or more.
C3_CeilingHeight ==
    call.op = "validate_room" =>
        LET found == WithCode(ret, "IRC R305.1")
        IN  /\ Cardinality(found) = (IF BelowSeven(CalledRoom) THEN 1 ELSE 0)
            /\ \A i \in found : ret[i].component = <<CalledRoom.room_type>>

\* a 6.5 ft room that is not a Bedroom was validated and got the finding first
C3_Witness ==
    /\ call.op = "validate_room"
    /\ CalledRoom.ceiling_height_feet = Rat(13, 2)
    /\ CalledRoom.room_type = "Utility"
    /\ ret # <<>>
    /\ ret[1].code = "IRC R305.1"
    /\ ret[1].component = <<"Utility">>

\* the 1-based room label validate_project puts in front of a component
LabelOf(i, room) == <<"Room ", ToString(i), " (", room.room_type, ")">>

\* C4: validate_project returns the findings of validate_room for each room,
\* rooms in list order and each room's findings in their own order, with code,
\* severity and message unchanged; its length is the sum of the rooms' finding
\* counts, and the component of every finding of room i (1-based) starts with
\* "Room i (room type)".
C4_ValidateProject ==
    call.op = "validate_project" =>
        LET rooms     == project.rooms
            per(i)    == validate_room(rooms[i], project)
            counts    == [i \in DOMAIN rooms |-> Len(per(i))]
            offset(i) == SumOver(counts, 1..(i - 1))
        IN  /\ Len(ret) = SumOver(counts, DOMAIN rooms)
            /\ \A i \in DOMAIN rooms : \A k \in DOMAIN per(i) :
                   LET f == ret[offset(i) + k]
                       g == per(i)[k]
                   IN  /\ f.code = g.code
                       /\ f.severity = g.severity
                       /\ f.message = g.message
                       /\ Len(f.component) >= 5
                       /\ SubSeq(f.component, 1, 5) = LabelOf(i, rooms[i])

\* two rooms, the first with one finding and the second with none: the project's
\* list has one entry, labelled "Room 1 (...)"
C4_Witness ==
    /\ call.op = "validate_project"
    /\ Len(project.rooms) = 2
    /\ Len(validate_room(project.rooms[1], project)) = 1
    /\ Len(validate_room(project.rooms[2], project)) = 0
    /\ Len(ret) = 1
    /\ SubSeq(ret[1].component, 1, 5) = LabelOf(1, project.rooms[1])

\* the eight quantity fields
EightFields == {"studs_count", "stud_linear_feet", "top_plate_lf", "bottom_plate_lf",
                "sheathing_sqft", "drywall_sqft", "insulation_sqft",
                "gravel_cubic_yards"}

\* a quantity as a whole number: studs_count as it is, the others in units of
\* 1/7776 (= 1/(144 * 54)), of which every quantity here is a multiple
Whole(k, q) == IF k = "studs_count" THEN q ELSE Units(q, 7776)

IsWhole(k, q) == IF k = "studs_count" THEN q \in Nat ELSE Exact(q, 7776)

\* C5: calculate_room_materials(room) has exactly the eight quantity fields, and
\* each is the sum of that field of calculate_wall_materials over the room's walls.
C5_RoomAdditivity ==
    call.op = "calculate_room_materials" =>
        LET walls == CalledRoom.walls
        IN  /\ DOMAIN ret = EightFields
            /\ \A k \in EightFields :
                   /\ IsWhole(k, ret[k])
                   /\ Whole(k, ret[k]) =
                        SumOver([i \in DOMAIN walls |->
                                    Whole(k, calculate_wall_materials(walls[i])[k])],
                                DOMAIN walls)

\* a room of an exterior 12 ft wall and an interior 10.5 ft wall: 22.5 ft of
\* bottom plate, 45 ft of top plate
C5_Witness ==
    /\ call.op = "calculate_room_materials"
    /\ Len(CalledRoom.walls) = 2
    /\ CalledRoom.walls[1].is_exterior
    /\ ~CalledRoom.walls[2].is_exterior
    /\ ret.bottom_plate_lf = Rat(45, 2)
    /\ ret.top_plate_lf = FromInt(45)

\* every wall of every room of the project, as <<room index, wall index>>
WallSlots ==
    {s \in (DOMAIN project.rooms) \X (1..8) : s[2] \in DOMAIN project.rooms[s[1]].walls}

\* C6: calculate_project_materials(project) has exactly the eight quantity
\* fields, and each is the sum of that field of calculate_room_materials over the
\* rooms, which is the sum of that field of calculate_wall_materials over every
\* wall of every room.
C6_ProjectAdditivity ==
    call.op = "calculate_project_materials" =>
        LET rooms == project.rooms
        IN  /\ DOMAIN ret = EightFields
            /\ \A k \in EightFields :
                   /\ IsWhole(k, ret[k])
                   /\ Whole(k, ret[k]) =
                        SumOver([i \in DOMAIN rooms |->
                                    Whole(k, calculate_room_materials(rooms[i])[k])],
                                DOMAIN rooms)
                   /\ Whole(k, ret[k]) =
                        SumOver([s \in WallSlots |->
                                    Whole(k, calculate_wall_materials(
                                                 rooms[s[1]].walls[s[2]])[k])],
                                WallSlots)

\* two rooms of two walls each: four walls' quantities in the total
C6_Witness ==
    /\ call.op = "calculate_project_materials"
    /\ Len(project.rooms) = 2
    /\ \A i \in 1..2 : Len(project.rooms[i].walls) = 2
    /\ Cardinality(WallSlots) = 4
    /\ ret.studs_count > calculate_room_materials(project.rooms[1]).studs_count
    /\ ret.studs_count > calculate_room_materials(project.rooms[2]).studs_count

\* C7: calculate_wall_materials gives studs_count = floor(length_feet * 12 /
\* stud_spacing_inches) + 1 + 3, an integer, and stud_linear_feet = studs_count *
\* height_feet, the spacing being 16 for the two "@ 16oc" framing types and 24
\* for the two "@ 24oc" ones.
C7_Studs ==
    call.op = "calculate_wall_materials" =>
        LET wall    == CalledWall
            L       == wall.length_feet
            H       == wall.height_feet
            spacing == IF wall.framing_type \in {"2x4 @ 16oc", "2x6 @ 16oc"} THEN 16
                       ELSE 24
            studs   == ((L[1] * 12) \div (L[2] * spacing)) + 1 + 3
        IN  /\ wall.framing_type \in {"2x4 @ 16oc", "2x6 @ 16oc", "2x4 @ 24oc", "2x6 @ 24oc"}
            /\ StudSpacingInches(wall) = spacing
            /\ ret.studs_count \in Nat
            /\ ret.studs_count = studs
            /\ ret.stud_linear_feet[1] * H[2] = studs * H[1] * ret.stud_linear_feet[2]

\* a 10.5 ft wall framed at 24 in: floor(126 / 24) + 4 = 9 studs, and 72 linear
\* feet of them at a height of 8 ft
C7_Witness ==
    /\ call.op = "calculate_wall_materials"
    /\ CalledWall.length_feet = Rat(21, 2)
    /\ CalledWall.height_feet = FromInt(8)
    /\ CalledWall.framing_type = "2x6 @ 24oc"
    /\ ret.studs_count = 9
    /\ ret.stud_linear_feet = FromInt(72)

\* the areas of the wall's windows added up, in 1/144 sq ft (square inches)
WindowSquareInches(wall) ==
    SumOver([j \in DOMAIN wall.windows |->
                Units(wall.windows[j].width_inches, 1)
                    * Units(wall.windows[j].height_inches, 1)],
            DOMAIN wall.windows)

\* length_feet * height_feet in 1/144 sq ft
GrossSquareInches(wall) ==
    (wall.length_feet[1] * wall.height_feet[1] * 144)
        \div (wall.length_feet[2] * wall.height_feet[2])

\* C8: calculate_wall_materials gives sheathing_sqft = drywall_sqft =
\* length_feet * height_feet, windows not deducted, and insulation_sqft = that
\* area minus the sum of the windows' areas (width * height / 144 each), which is
\* the gross area for a wall without windows.
C8_Areas ==
    call.op = "calculate_wall_materials" =>
        LET wall == CalledWall
        IN  /\ ret.sheathing_sqft = ret.drywall_sqft
            /\ Exact(ret.sheathing_sqft, 144)
            /\ Units(ret.sheathing_sqft, 144) = GrossSquareInches(wall)
            /\ Exact(ret.insulation_sqft, 144)
            /\ Units(ret.insulation_sqft, 144)
                   = GrossSquareInches(wall) - WindowSquareInches(wall)
            /\ wall.windows = <<>> => ret.insulation_sqft = ret.sheathing_sqft

\* a 4 ft by 8 ft wall with a 24x24 and a 36x48 window: 32 sq ft of sheathing
\* and of drywall, 32 - 4 - 12 = 16 sq ft of insulation
C8_Witness ==
    /\ call.op = "calculate_wall_materials"
    /\ CalledWall.length_feet = FromInt(4)
    /\ CalledWall.height_feet = FromInt(8)
    /\ CalledWall.windows = <<W24x24, W36x48>>
    /\ ret.sheathing_sqft = FromInt(32)
    /\ ret.drywall_sqft = FromInt(32)
    /\ ret.insulation_sqft = FromInt(16)

\* the lengths of the exterior walls among the slots S, added up, in half feet
ExteriorHalfFeet(S) ==
    SumOver([s \in S |->
                LET wall == project.rooms[s[1]].walls[s[2]]
                IN  IF wall.is_exterior THEN Units(wall.length_feet, 2) ELSE 0],
            S)

\* C9: gravel_cubic_yards of a wall is (length_feet * 2.0 * 0.5) / 27 when the
\* wall is exterior and 0 when it is not; so the gravel of a room or of a project
\* is that of the lengths of its exterior walls, and 0 when it has none.
\* (length / 27 cubic yards is 2 * length units of 1/54 cubic yard.)
C9_Gravel ==
    LET slots == CASE call.op = "calculate_wall_materials" -> {<<call.room, call.wall>>}
                   [] call.op = "calculate_room_materials" ->
                          {s \in WallSlots : s[1] = call.room}
                   [] call.op = "calculate_project_materials" -> WallSlots
                   [] OTHER -> {}
    IN  call.op \in {"calculate_wall_materials", "calculate_room_materials",
                     "calculate_project_materials"} =>
            /\ Exact(ret.gravel_cubic_yards, 54)
            /\ Units(ret.gravel_cubic_yards, 54) = ExteriorHalfFeet(slots)
            /\ (\A s \in slots : ~project.rooms[s[1]].walls[s[2]].is_exterior)
                   => ret.gravel_cubic_yards = FromInt(0)

\* a project of an interior and a 12 ft exterior wall in one room, a 4 ft
\* exterior and an interior wall in the other: 16 / 27 cubic yards
C9_Witness ==
    /\ call.op = "calculate_project_materials"
    /\ Len(project.rooms) = 2
    /\ project.rooms[1].walls = <<IntWall, ExtWall>>
    /\ project.rooms[2].walls = <<ShortWall, IntWall>>
    /\ ret.gravel_cubic_yards = Rat(16, 27)

\* C10: calculate_wall_materials gives bottom_plate_lf = length_feet and
\* top_plate_lf = 2 * length_feet, whatever the wall's height, framing type,
\* exterior flag, layers and windows.
C10_Plates ==
    call.op = "calculate_wall_materials" =>
        LET wall == CalledWall
        IN  /\ ret.bottom_plate_lf = wall.length_feet
            /\ Exact(ret.top_plate_lf, 2)
            /\ Units(ret.top_plate_lf, 2) = 2 * Units(wall.length_feet, 2)
            /\ \A h \in {FromInt(6), FromInt(20)}, ft \in FramingType, e \in BOOLEAN :
                   LET other == calculate_wall_materials(
                                    [wall EXCEPT !.height_feet = h, !.framing_type = ft,
                                                 !.is_exterior = e, !.layers = <<FoamR8>>,
                                                 !.windows = <<W24x38>>])
                   IN  /\ other.bottom_plate_lf = ret.bottom_plate_lf
                       /\ other.top_plate_lf = ret.top_plate_lf

\* a 10.5 ft exterior wall, 20 ft high, with windows: 10.5 ft of bottom plate and
\* 21 ft of top plate
C10_Witness ==
    /\ call.op = "calculate_wall_materials"
    /\ CalledWall.length_feet = Rat(21, 2)
    /\ CalledWall.height_feet = FromInt(20)
    /\ CalledWall.is_exterior
    /\ CalledWall.windows # <<>>
    /\ ret.bottom_plate_lf = Rat(21, 2)
    /\ ret.top_plate_lf = FromInt(21)

\* the requirement of a climate zone, as the energy code's table has it
TableRValue(zone) ==
    CASE zone \in {1, 2, 3} -> 13
      [] zone = 4           -> 15
      [] zone \in {5, 6}    -> 20
      [] zone \in {7, 8}    -> 21

\* C11: the R-value required of an exterior wall depends on the climate zone
\* alone: 13 in zones 1 to 3, 15 in zone 4, 20 in zones 5 and 6, 21 in zones 7
\* and 8, and 20 when the zone is not in the table. An exterior wall has its one
\* "IECC R402.1" finding, citing that requirement and that zone, exactly when its
\* total R-value is below it; so a wall of R-20.65 has none in zone 6 and one,
\* citing 21, in zones 7 and 8.
C11_RequiredRValue ==
    call.op = "validate_room" =>
        LET wall  == CalledRoom.walls[1]
            zone  == project.climate_zone
            found == WithCode(ret, "IECC R402.1")
            below == wall.is_exterior /\ RHundredths(wall) < 100 * TableRValue(zone)
        IN  /\ Cardinality(found) = (IF below THEN 1 ELSE 0)
            /\ \A i \in found :
                   /\ ret[i].message[3] = " below required "
                   /\ ret[i].message[4] = ToString(TableRValue(zone))
                   /\ ret[i].message[5] = " for Climate Zone "
                   /\ ret[i].message[6] = ToString(zone)
            /\ (wall.is_exterior /\ RHundredths(wall) = 2065) =>
                   /\ zone = 6 => found = {}
                   /\ zone \in {7, 8} =>
                          /\ Cardinality(found) = 1
                          /\ \A i \in found : ret[i].message[4] = "21"
            /\ \A missing \in {0, 9} :
                   RequiredRValue([project EXCEPT !.climate_zone = missing]) = 20

\* the R-20.65 exterior wall was validated in zone 8 and got one finding, which
\* cites 21
C11_Witness ==
    /\ call.op = "validate_room"
    /\ project.climate_zone = 8
    /\ CalledRoom.walls[1].is_exterior
    /\ CalledRoom.walls[1].layers = exterior_layers
    /\ Len(ret) = 1
    /\ ret[1].code = "IECC R402.1"
    /\ ret[1].message[4] = "21"

\* the place of a code in the order of the three checks
CheckOrder(code) ==
    CASE code = "IRC R305.1"  -> 1
      [] code = "IRC R310.1"  -> 2
      [] code = "IECC R402.1" -> 3
      [] OTHER                -> 0

\* C12: the findings of validate_room come in the order of the checks: the
\* ceiling height finding ("IRC R305.1") first, then the egress finding ("IRC
\* R310.1"), then the thermal findings ("IECC R402.1"); no finding of an earlier
\* check follows one of a later check.
C12_CheckOrder ==
    call.op = "validate_room" =>
        /\ \A i \in DOMAIN ret : CheckOrder(ret[i].code) \in 1..3
        /\ \A i, j \in DOMAIN ret :
               i < j => CheckOrder(ret[i].code) <= CheckOrder(ret[j].code)

\* a 6.5 ft Bedroom without a passing window and with two exterior walls below
\* the requirement was validated: four findings, one of each of the first two
\* checks and then two of the third
C12_Witness ==
    /\ call.op = "validate_room"
    /\ Len(ret) = 4
    /\ ret[1].code = "IRC R305.1"
    /\ ret[2].code = "IRC R310.1"
    /\ ret[3].code = "IECC R402.1"
    /\ ret[4].code = "IECC R402.1"

\* width * height of a window, in square inches
SquareInches(window) == Units(window.width_inches, 1) * Units(window.height_inches, 1)

\* the largest width * height among the room's windows, in square inches
LargestSquareInches(room) ==
    LET areas == {SquareInches(room.walls[s[1]].windows[s[2]]) : s \in WindowSlots(room)}
    IN  CHOOSE a \in areas : \A b \in areas : b <= a

\* C13: for a Bedroom with at least one window and none clearing 5.7 sq ft, the
\* one "IRC R310.1" finding reports, as "Largest found", the largest clear opening
\* among all the windows of all the walls, to two decimals: not the first or the
\* last window's, and not their sum. (A clear opening is width * height / 160
\* sq ft, that is 5 * width * height / 8 hundredths.) A Bedroom whose only
\* window is 24x24 reports 3.60.
C13_LargestOpening ==
    (/\ call.op = "validate_room"
     /\ CalledRoom.room_type = "Bedroom"
     /\ WindowSlots(CalledRoom) # {}
     /\ \A s \in WindowSlots(CalledRoom) :
            ~Clears(CalledRoom.walls[s[1]].windows[s[2]])) =>
        LET found == WithCode(ret, "IRC R310.1")
            most  == LargestSquareInches(CalledRoom)
        IN  /\ Cardinality(found) = 1
            /\ (5 * most) % 8 = 0
            /\ \A i \in found :
                   /\ ret[i].message[5] = "Largest found: "
                   /\ ret[i].message[6] = ToString(Rat((5 * most) \div 8, 100))
                   /\ ret[i].message[7] = " sq ft"
                   /\ most = 24 * 24 => ret[i].message[6] = ToString(Rat(360, 100))

\* a Bedroom with a 20x24 window on its first wall, and a 24x30 and then a 24x24
\* window on its second, was validated: the finding reports 4.50, the opening of
\* the window in the middle
C13_Witness ==
    /\ call.op = "validate_room"
    /\ CalledRoom.room_type = "Bedroom"
    /\ Len(CalledRoom.walls) = 2
    /\ CalledRoom.walls[1].windows = <<W20x24>>
    /\ CalledRoom.walls[2].windows = <<W24x30, W24x24>>
    /\ Len(ret) = 1
    /\ ret[1].code = "IRC R310.1"
    /\ ret[1].message[6] = ToString(Rat(450, 100))

Positive(x) == x[1] > 0

\* the invariants of the data model, for a wall with its layers and windows
WellFormedWall(wall) ==
    /\ Positive(wall.length_feet)
    /\ 6 * wall.height_feet[2] <= wall.height_feet[1]
    /\ wall.height_feet[1] <= 20 * wall.height_feet[2]
    /\ \A i \in DOMAIN wall.layers :
           /\ Positive(wall.layers[i].thickness_inches)
           /\ wall.layers[i].r_value[1] >= 0
    /\ \A j \in DOMAIN wall.windows :
           /\ Positive(wall.windows[j].width_inches)
           /\ Positive(wall.windows[j].height_inches)
           /\ Positive(wall.windows[j].u_factor)
           /\ wall.windows[j].u_factor[1] <= 2 * wall.windows[j].u_factor[2]

\* the invariants of the data model, for a whole project
WellFormed(p) ==
    /\ p.climate_zone \in 1..8
    /\ Len(p.rooms) >= 1
    /\ \A r \in DOMAIN p.rooms :
           /\ Positive(p.rooms[r].ceiling_height_feet)
           /\ Len(p.rooms[r].walls) >= 1
           /\ \A w \in DOMAIN p.rooms[r].walls : WellFormedWall(p.rooms[r].walls[w])

\* C15: on every Project that satisfies the invariants of the data model,
\* calculate_project_materials and validate_project return a value and raise
\* nothing; the stud spacing the wall length is divided by is never zero, and the
\* egress check takes its maximum over a non-empty list of windows only.
C15_AlwaysReturns ==
    (WellFormed(project) /\ call.op \in ProjectOps) =>
        /\ call.raised = "None"
        /\ \A s \in WallSlots : StudSpacingInches(project.rooms[s[1]].walls[s[2]]) # 0
        /\ \A r \in DOMAIN project.rooms : EgressRaises(project.rooms[r]) = "None"

\* C16: no operation of the Calculator or of the Validator changes a field of
\* the Project, Room, Wall, Window or MaterialLayer it is given: every step of
\* calculate_wall_materials, calculate_room_materials,
\* calculate_project_materials, validate_room and validate_project leaves the
\* tree as it was, so that it is the same after any sequence of calls.
C16_Frame == [][project' = project]_vars

\* validate_project ran over a project whose first room is a Bedroom of two
\* walls with a window each, and returned findings labelled with the room; the
\* room still has the walls it was built with
C16_Witness ==
    /\ call.op = "validate_project"
    /\ project.rooms[1].room_type = "Bedroom"
    /\ project.rooms[1].walls = <<IntWall, ExtWall>>
    /\ ret # <<>>
    /\ ret[1].component[1] = "Room "

\* how often a piece occurs in a component
Occurrences(piece, component) ==
    Cardinality({k \in DOMAIN component : component[k] = piece})

GeometryOnly(p) ==
    [name |-> "", location_zip |-> "", climate_zone |-> 1,
     rooms |-> [r \in DOMAIN p.rooms |->
        [room_type |-> "Utility", ceiling_height_feet |-> <<1, 1>>,
         walls |-> [w \in DOMAIN p.rooms[r].walls |->
            LET wall == p.rooms[r].walls[w]
            IN  [length_feet |-> wall.length_feet, height_feet |-> wall.height_feet,
                 framing_type |-> wall.framing_type, is_exterior |-> wall.is_exterior,
                 layers |-> <<>>,
                 windows |-> [k \in DOMAIN wall.windows |->
                    [width_inches |-> wall.windows[k].width_inches,
                     height_inches |-> wall.windows[k].height_inches,
                     u_factor |-> <<1, 1>>, window_type |-> ""]]]]]]]

\* C18: the quantities of calculate_project_materials depend on the geometry
\* alone: a project and the project that agrees with it on every wall's length,
\* height, framing type and exterior flag and on every window's width and height,
\* but has another climate zone, other room types and ceilings, no layers, other
\* U-factors, another name and ZIP code, get the same eight quantities, whether
\* or not validation finds violations in either. (Two projects that agree on
\* their geometry have the same geometry-only project, hence the same result.)
C18_GeometryOnly ==
    (call.op = "calculate_project_materials" /\ call.raised = "None") =>
        /\ ret = calculate_project_materials(GeometryOnly(project))
        /\ \A k \in EightFields :
               Whole(k, ret[k]) =
                   SumOver([s \in WallSlots |->
                               Whole(k, calculate_wall_materials(
                                            GeometryOnly(project).rooms[s[1]].walls[s[2]])[k])],
                           WallSlots)

\* the quantities were calculated for a project of two rooms in zone 7, the
\* first a 6.5 ft Bedroom, on which validation has findings, while on its
\* geometry-only project it has none
C18_Witness ==
    /\ call.op = "calculate_project_materials"
    /\ Len(project.rooms) = 2
    /\ project.climate_zone = 7
    /\ project.rooms[1].room_type = "Bedroom"
    /\ project.rooms[1].ceiling_height_feet = Rat(13, 2)
    /\ Len(validate_project(project)) >= 3
    /\ project # GeometryOnly(project)
    /\ ret = calculate_project_materials(GeometryOnly(project))

\* the demonstration's Bedroom after `north_wall.windows = [compliant_window]`
DemoFixed ==
    [DemoProject EXCEPT !.rooms[1].walls[1].windows =
        <<[width_inches |-> <<36, 1>>, height_inches |-> <<48, 1>>,
           u_factor |-> <<7, 25>>, window_type |-> "Double-Hung"]>>]

\* C19: validation keeps nothing between calls and reflects the tree as it is
\* when it is called. For the demonstration's Bedroom (zone 6, ceiling 8.0, three
\* exterior walls of R-20.65, one interior wall without layers, one 24x24 window)
\* validate_room returns exactly one finding, "IRC R310.1"; once the windows of
\* that wall are replaced by a single 36x48 window it returns none, whatever it
\* returned before; and whatever windows the wall has been given, there is one
\* R310.1 finding exactly when no window of the room as it is now clears 5.7
\* sq ft, and no other finding.
C19_DemoRevalidation ==
    call.op = "dataclass.validate_room" =>
        LET slots == WindowSlots(CalledRoom)
            fails == \A s \in slots : ~Clears(CalledRoom.walls[s[1]].windows[s[2]])
        IN  /\ project = DemoProject =>
                   /\ Len(ret) = 1
                   /\ ret[1].code = "IRC R310.1"
                   /\ ret[1].message[6] = ToString(Rat(360, 100))
            /\ project = DemoFixed => ret = <<>>
            /\ Len(ret) = (IF fails THEN 1 ELSE 0)
            /\ \A i \in DOMAIN ret : ret[i].code = "IRC R310.1"

\* the Bedroom was validated with its 24x24 window and had one finding; the
\* window was replaced by the 36x48 one, and the second validation returned none
C19_Witness ==
    /\ call.op = "dataclass.validate_room"
    /\ project = DemoFixed
    /\ ret = <<>>
    /\ history.calls["dataclass.validate_room"] = 2
    /\ Len(history.first["dataclass.validate_room"]) = 1
    /\ history.first["dataclass.validate_room"][1].code = "IRC R310.1"
    /\ history.first["dataclass.validate_room"][1].message[5] = "Largest found: "

\* what src/api.py returns for the operation of the same name on the values the
\* dataclasses were built from
ApiResult ==
    LET room == project.rooms[call.room] IN
    CASE call.op = "dataclass.calculate_wall_materials" ->
             calculate_wall_materials(room.walls[call.wall])
      [] call.op = "dataclass.calculate_room_materials" -> calculate_room_materials(room)
      [] call.op = "dataclass.validate_room" -> validate_room(room, project)

DataclassOps ==
    {"dataclass.calculate_wall_materials", "dataclass.calculate_room_materials",
     "dataclass.validate_room"}

\* C20: the calculator and the validator of the dataclass module give, on a tree
\* built from the same field values, what those of src/api.py give: the same
\* eight quantities, and the same findings in the same order, each with the same
\* code, severity, message and component.
C20_ModulesAgree ==
    (call.op \in DataclassOps /\ call.raised = "None") =>
        /\ DOMAIN ret = DOMAIN ApiResult
        /\ \A k \in DOMAIN ret : ret[k] = ApiResult[k]

\* the dataclass module has validated a Bedroom framed at 24 inches and returned
\* three findings, the second one naming the largest opening found
C20_Witness ==
    /\ call.op = "dataclass.validate_room"
    /\ call.raised = "None"
    /\ project.rooms[call.room].walls[1].framing_type = STUD_2x4_24OC
    /\ Len(ret) = 3
    /\ ret[2].code = "IRC R310.1" /\ Len(ret[2].message) > 1
    /\ ret = ApiResult

\* an entity the data model is to refuse: a wall lower than 6 ft or higher than
\* 20 ft, a wall length, window width or height, ceiling height or layer
\* thickness that is not positive, a room without walls, a project without rooms
InvalidWall(wall) ==
    \/ wall.length_feet[1] <= 0
    \/ wall.height_feet[1] < 6 * wall.height_feet[2]
    \/ wall.height_feet[1] > 20 * wall.height_feet[2]
    \/ \E i \in DOMAIN wall.layers : wall.layers[i].thickness_inches[1] <= 0
    \/ \E j \in DOMAIN wall.windows :
           \/ wall.windows[j].width_inches[1] <= 0
           \/ wall.windows[j].height_inches[1] <= 0

InvalidEntity(p) ==
    \/ Len(p.rooms) = 0
    \/ \E r \in DOMAIN p.rooms :
           \/ p.rooms[r].ceiling_height_feet[1] <= 0
           \/ Len(p.rooms[r].walls) = 0
           \/ \E w \in DOMAIN p.rooms[r].walls : InvalidWall(p.rooms[r].walls[w])

\* C14: constructing an invalid entity is rejected at construction time, so the
\* tree the host holds, and the Calculator and the Validator are called on, is
\* never an invalid one, whichever module's classes it is made of.
C14_NoInvalidEntity == ~InvalidEntity(project)

\* the three code citations
Citations == {"IRC R305.1", "IRC R310.1", "IECC R402.1"}

\* the components a room-level check gives a finding of the room: the room type,
\* or "Wall #n (framing type)" for a wall n of the room
OriginalComponents(room) ==
    {<<room.room_type>>}
        \cup {<<"Wall #", ToString(n), " (", room.walls[n].framing_type, ")">> :
                 n \in DOMAIN room.walls}

\* C21: every finding of the three room-level checks has a non-empty component,
\* severity "ERROR" and one of the three citations as its code; so every finding
\* validate_project returns has a component of the form
\* "Room i (room type) - original component", never the room label alone, for a
\* room i of the project and a component the checks give a finding of that room.
C21_Components ==
    /\ call.op = "validate_room" =>
           \A k \in DOMAIN ret :
               /\ ret[k].component \in OriginalComponents(CalledRoom)
               /\ Len(ret[k].component) > 0
               /\ ret[k].severity = "ERROR"
               /\ ret[k].code \in Citations
    /\ call.op = "validate_project" =>
           \A k \in DOMAIN ret :
               /\ \E i \in DOMAIN project.rooms :
                      \E original \in OriginalComponents(project.rooms[i]) :
                          ret[k].component =
                              LabelOf(i, project.rooms[i]) \o <<" - ">> \o original
               /\ ret[k].severity = "ERROR"
               /\ ret[k].code \in Citations

\* validate_project has returned findings of all three checks for the second
\* room of a project, the thermal one on a wall
C21_Witness ==
    /\ call.op = "validate_project"
    /\ Len(project.rooms) = 2
    /\ {ret[k].code : k \in DOMAIN ret} = Citations
    /\ \E k \in DOMAIN ret :
           /\ ret[k].code = "IECC R402.1"
           /\ SubSeq(ret[k].component, 1, 7) =
                  LabelOf(2, project.rooms[2]) \o <<" - ", "Wall #">>
    /\ \E k \in DOMAIN ret :
           /\ ret[k].code = "IRC R305.1"
           /\ ret[k].component =
                  LabelOf(2, project.rooms[2]) \o <<" - ", project.rooms[2].room_type>>

\* the findings of one citation, in their order
FindingsOf(findings, code) == SelectSeq(findings, LAMBDA f : f.code = code)

\* what validate_room returns for room r before and after a step, compared:
\* no more findings of `improved`, and the findings of the two other citations
\* as they were
NoNewFinding(r, improved) ==
    LET before == validate_room(project.rooms[r], project)
        after  == validate_room(project'.rooms[r], project')
    IN  /\ Len(FindingsOf(after, improved)) <= Len(FindingsOf(before, improved))
        /\ \A code \in Citations \ {improved} :
               FindingsOf(after, code) = FindingsOf(before, code)

\* C22: appending a layer of R-value 0 or more to a wall never increases the
\* number of "IECC R402.1" findings of validate_room for the room, and adding a
\* window to a wall of a Bedroom never increases the number of its "IRC R310.1"
\* findings; either change leaves the findings of the two other checks as they
\* were.
C22_Improvement ==
    [][/\ call'.op = "Wall.layers.append" => NoNewFinding(call'.room, "IECC R402.1")
       /\ call'.op = "Wall.windows.append" => NoNewFinding(call'.room, "IRC R310.1")]_vars

\* a layer of R-13 was appended to the vapor barrier of the only exterior wall of
\* a low Bedroom with a 24x24 window: the wall now meets R-13, and the ceiling
\* and the egress finding remain
C22_Witness ==
    /\ call.op = "Wall.layers.append"
    /\ CalledRoom.room_type = BEDROOM
    /\ Len(CalledRoom.walls) = 1
    /\ CalledWall.is_exterior
    /\ Len(CalledWall.layers) = 2
    /\ CalledWall.layers[1].r_value = FromInt(0)
    /\ CalledWall.layers[2] = BattR13
    /\ CalledWall.windows = <<W24x24>>
    /\ {f.code : f \in {validate_room(CalledRoom, project)[k] :
                            k \in DOMAIN validate_room(CalledRoom, project)}}
           = {"IRC R305.1", "IRC R310.1"}

============================================================================
